---- MODULE Spec2Model ----
(***************************************************************************)
(* A model of reddit-domain-stats (src/main.py): the reddit_stats          *)
(* container, its on-disk store under DATA_PATH, and main()'s bounded      *)
(* retry loop followed by the four charts.                                 *)
(*                                                                         *)
(* Python values are modelled with their type: a value is a record         *)
(* [kind, val] with kind "none" (None), "dict" (val a function from keys)  *)
(* or "list" (val a sequence).  A History is a dict from author to a list; *)
(* update() appends to that list the whole list of domains the author has  *)
(* in one sample, so an entry of a History is itself a list of domains.    *)
(*                                                                         *)
(* Spec     : sequential runs of main(), one process at a time.            *)
(* SpecConc : two invocations of main() running at once on the same data   *)
(*            directory, interleaved file by file.                         *)
(***************************************************************************)
EXTENDS Integers, Sequences, FiniteSets, TLC

\* ---------------------------------------------------------------- bounds
\* sequential runs of main() that Spec starts
MaxRuns == 3
\* children in one listing response
MaxPosts == 2
\* well-formed posts the listings deliver over a whole behaviour
MaxObserved == 3
\* in SpecConc: posts the two invocations fetch, over both listings
MaxConcPosts == 1
\* in SpecConc: HTTP errors the network raises over a whole behaviour
MaxConcFailures == 2

\* ------------------------------------------------------ program constants
\* main(): while not success and attempts < 10
MaxAttempts == 10

Authors == {"u1", "u2"}
Domains == {"d1", "d2"}
\* the two processes of SpecConc; Spec runs every process in slot "A"
Procs == {"A", "B"}
Solo == "A"

DATA_FILE == "data"
ALL_DATA_FILE == "data_all"
DATE_FILE == "dates"
StoreFiles == {DATA_FILE, ALL_DATA_FILE, DATE_FILE}
\* main(): the keys of file_dict, in the order the dict yields them
ChartOrder == <<"user_data.png", "user_all_data.png",
                "domain_data.png", "domain_all_data.png">>
ChartFiles == {ChartOrder[i] : i \in DOMAIN ChartOrder}
ConnectionMessage == "Unable to establish connection"

\* ----------------------------------------------------------- Python values
PyNone == [kind |-> "none", val |-> <<>>]
PyDict(f) == [kind |-> "dict", val |-> f]
PyList(s) == [kind |-> "list", val |-> s]
EmptyDict == [k \in {} |-> <<>>]

\* bool(x) of None, a dict or a list
PyBool(v) == v.kind # "none" /\ DOMAIN v.val # {}

\* isinstance(x, list) for a value stored under a key: every such value is
\* built by [value] or .append, and JSON keeps a list a list
IsListValue(v) == DOMAIN v = 1..Len(v)

\* ------------------------------------------------------------ listings
\* the marker of a key that a JSON object lacks
NoKey == "<no key>"
Posts == [author : Authors, domain : Domains]
SeqsUpTo(S, n) == UNION {[1..k -> S] : k \in 0..n}
\* a decoded JSON response with at most n posts: a listing of posts, a
\* listing whose second child has no 'author', or a response without
\* data.children
Responses(n) ==
  {[has_children |-> TRUE, children |-> c] : c \in SeqsUpTo(Posts, n)}
    \cup {[has_children |-> TRUE,
           children |-> <<[author |-> "u1", domain |-> "d1"],
                          [author |-> NoKey, domain |-> "d1"]>>],
          [has_children |-> FALSE, children |-> <<>>]}

\* _gen_data_dict, with the else branch always taken
GenDataDictOverwrite(dictionary, key, value) ==
  [k \in DOMAIN dictionary \cup {key} |->
     IF k = key THEN <<value>> ELSE dictionary[k]]

\* _gen_data_dict(dictionary, key, value)
GenDataDict(dictionary, key, value) ==
  IF key \in DOMAIN dictionary /\ IsListValue(dictionary[key])
  THEN [dictionary EXCEPT ![key] = Append(@, value)]
  ELSE [k \in DOMAIN dictionary \cup {key} |->
          IF k = key THEN <<value>> ELSE dictionary[k]]

\* child['data']['author'] or child['data']['domain'] raises KeyError
RaisesKeyError(response) ==
  \/ ~response.has_children
  \/ \E i \in 1..Len(response.children) :
       \/ response.children[i].author = NoKey
       \/ response.children[i].domain = NoKey

RECURSIVE ExtractLoop(_, _, _)
ExtractLoop(children, i, temp_dict) ==
  IF i > Len(children) THEN temp_dict
  ELSE ExtractLoop(children, i + 1,
                   GenDataDict(temp_dict, children[i].author, children[i].domain))

\* reddit_stats._extract_data(response): author -> list of domains
ExtractData(response) ==
  IF RaisesKeyError(response) THEN EmptyDict
  ELSE ExtractLoop(response.children, 1, EmptyDict)

\* the posts of a response the extractor accepts, as a sequence
ObservedPosts(response) ==
  IF RaisesKeyError(response) THEN <<>> ELSE response.children

\* ------------------------------------------------------------ the store
\* json.dump(data, out_file): the file's text, an object, an array or null
JsonDump(v) ==
  [json |-> CASE v.kind = "dict" -> "object"
              [] v.kind = "list" -> "array"
              [] OTHER -> "null",
   val |-> v.val]

\* json.load(infile)
JsonLoad(text) ==
  [kind |-> CASE text.json = "object" -> "dict"
              [] text.json = "array" -> "list"
              [] OTHER -> "none",
   val |-> text.val]

NoFile == [exists |-> FALSE, text |-> JsonDump(PyNone)]
EmptyDisk == [f \in StoreFiles |-> NoFile]

\* _load_data_file, returning the default whatever the file holds
LoadDataFileNoRead(file, is_list) ==
  IF is_list THEN PyList(<<>>) ELSE PyDict(EmptyDict)

\* reddit_stats._load_data_file(filename, is_list=False)
LoadDataFile(file, is_list) ==
  IF file.exists THEN JsonLoad(file.text)
  ELSE IF is_list THEN PyList(<<>>) ELSE PyDict(EmptyDict)

\* reddit_stats._save_data_file(filename, data)
SaveDataFile(data) == [exists |-> TRUE, text |-> JsonDump(data)]

\* reddit_stats.is_data_loaded()
IsDataLoaded(m) ==
  PyBool(m.data) /\ PyBool(m.all_data) /\ PyBool(m.date_data)

\* reddit_stats.load_data(override=False): the memory after it; the dates
\* file too is loaded without is_list
LoadData(m, d) ==
  IF ~IsDataLoaded(m)
  THEN [data |-> LoadDataFile(d[DATA_FILE], FALSE),
        all_data |-> LoadDataFile(d[ALL_DATA_FILE], FALSE),
        date_data |-> LoadDataFile(d[DATE_FILE], FALSE)]
  ELSE m

\* save_data() leaving the dates file as it is
SaveDataNoDates(m, d) ==
  [d EXCEPT ![DATA_FILE] = SaveDataFile(m.data),
            ![ALL_DATA_FILE] = SaveDataFile(m.all_data)]

\* reddit_stats.save_data(): the disk after it
SaveData(m, d) ==
  [d EXCEPT ![DATA_FILE] = SaveDataFile(m.data),
            ![ALL_DATA_FILE] = SaveDataFile(m.all_data),
            ![DATE_FILE] = SaveDataFile(m.date_data)]

\* update(): the date list replaced by [date_data] instead of appended to
AppendDateOverwrite(date_data, stamp) == PyList(<<stamp>>)

\* update(): if isinstance(self._date_data, list): append, else [date_data]
AppendDate(date_data, stamp) ==
  IF date_data.kind = "list" THEN PyList(Append(date_data.val, stamp))
  ELSE PyList(<<stamp>>)

RECURSIVE MergeLoop(_, _, _)
MergeLoop(history, data, keys) ==
  IF keys = {} THEN history
  ELSE LET key == CHOOSE k \in keys : TRUE
       IN MergeLoop(GenDataDict(history, key, data[key]), data, keys \ {key})

\* update(): for key, value in data.items(): _gen_data_dict(self._data, key, value)
MergeData(history, data) == PyDict(MergeLoop(history.val, data, DOMAIN data))

\* update() after the fetch: the memory with the sample merged in
MergeSample(m, sample) ==
  [data |-> MergeData(m.data, sample.data),
   all_data |-> MergeData(m.all_data, sample.all_data),
   date_data |-> AppendDate(m.date_data, sample.date_data)]

\* --------------------------------------------------------- aggregate views
\* get_user_totals(): dict((key, len(value)) ...)
UserTotals(history) == [key \in DOMAIN history |-> Len(history[key])]

\* get_domain_totals(): [x[0] for x in itertools.chain(*values)], as the
\* places (author, index) of the chained entries
ChainedEntries(history) ==
  UNION {{<<a, i>> : i \in 1..Len(history[a])} : a \in DOMAIN history}

\* get_domain_totals(): dict((entry, domain_list.count(entry)) for entry in set)
DomainTotals(history) ==
  LET places == ChainedEntries(history)
      domain_set == {history[p[1]][p[2]][1] : p \in places}
  IN [entry \in domain_set |->
        Cardinality({p \in places : history[p[1]][p[2]][1] = entry})]

\* main(): file_dict, the data dictionary of each chart file
FileDict(m) ==
  [f \in ChartFiles |->
     CASE f = "user_data.png" -> UserTotals(m.data.val)
       [] f = "user_all_data.png" -> UserTotals(m.all_data.val)
       [] f = "domain_data.png" -> DomainTotals(m.data.val)
       [] f = "domain_all_data.png" -> DomainTotals(m.all_data.val)]

\* generate_graph(): x, y = zip(*tuples) raises ValueError on no tuples;
\* otherwise the figure is saved (its bars and title are not modelled)
GraphRaises(data_dict) == DOMAIN data_dict = {}

\* ------------------------------------------------------------------ state
VARIABLES
  disk,       \* the three JSON files of DATA_PATH
  charts,     \* the chart files present in DATA_PATH
  clock,      \* datetime.now(), in samples taken
  proc,       \* per process: pc, main()'s locals, the reddit_stats fields
  out,        \* per process: exit status, stderr, and what the run did
  obs,        \* per listing and post: how often the listing delivered it
  runs,       \* processes started so far
  succ_runs,  \* runs in which update() returned
  failures,   \* HTTP errors raised so far
  overlap     \* whether two processes were ever alive at once

vars == <<disk, charts, clock, proc, out, obs, runs, succ_runs, failures, overlap>>

Listings == {"front", "all"}

NoSample == [data |-> EmptyDict, all_data |-> EmptyDict, date_data |-> 0]

\* reddit_stats.__init__ and the first lines of main()
FreshProc ==
  [pc |-> "loop", attempts |-> 0, success |-> FALSE,
   mem |-> [data |-> PyNone, all_data |-> PyNone, date_data |-> PyNone],
   sample |-> NoSample]

NoProc == [FreshProc EXCEPT !.pc = "idle"]

FreshOut ==
  [exit_status |-> 0, stderr |-> <<>>, calls |-> 0,
   written |-> {}, rendered |-> {}]

Init ==
  /\ disk = EmptyDisk
  /\ charts = {}
  /\ clock = 0
  /\ proc = [p \in Procs |-> NoProc]
  /\ out = [p \in Procs |-> FreshOut]
  /\ obs = [l \in Listings |-> [post \in Posts |-> 0]]
  /\ runs = 0
  /\ succ_runs = 0
  /\ failures = 0
  /\ overlap = FALSE

Alive(p) == proc[p].pc \notin {"idle", "exited"}

RECURSIVE SumOver(_, _)
SumOver(f, S) ==
  IF S = {} THEN 0
  ELSE LET x == CHOOSE y \in S : TRUE IN f[x] + SumOver(f, S \ {x})

\* the posts delivered so far, over both listings
ObservedTotal == SumOver(obs["front"], Posts) + SumOver(obs["all"], Posts)

CountIn(s, x) == Cardinality({i \in 1..Len(s) : s[i] = x})

Observe(r_front, r_all) ==
  [l \in Listings |->
     [post \in Posts |->
        obs[l][post]
          + CountIn(ObservedPosts(IF l = "front" THEN r_front ELSE r_all), post)]]

Min(a, b) == IF a < b THEN a ELSE b

\* the pairs of responses (front page, r/all) that deliver at most left posts
ResponsePairs(left) ==
  UNION {{<<r_front, r_all>> :
            r_all \in Responses(Min(MaxPosts,
                                    left - Len(ObservedPosts(r_front))))} :
         r_front \in Responses(Min(MaxPosts, left))}

\* the pairs of responses the bound on delivered posts still admits
FetchablePairs == ResponsePairs(MaxObserved - ObservedTotal)

\* _get_reddit_data(): data, all_data, date_data
GetRedditData(r_front, r_all, stamp) ==
  [data |-> ExtractData(r_front), all_data |-> ExtractData(r_all),
   date_data |-> stamp]

\* the loop test with <= for <: one attempt too many
WhileCondOffByOne(p) == ~proc[p].success /\ proc[p].attempts <= MaxAttempts

\* main(): while not success and attempts < 10
WhileCond(p) == ~proc[p].success /\ proc[p].attempts < MaxAttempts

\* main(): if attempts == 10 and not success
GaveUpCond(p) == proc[p].attempts = MaxAttempts /\ ~proc[p].success

\* --------------------------------------------------- Spec: sequential runs
\* a new process: python main.py, once the previous one has exited
StartRun(p) ==
  /\ \A q \in Procs : ~Alive(q)
  /\ runs < MaxRuns
  /\ proc' = [proc EXCEPT ![p] = FreshProc]
  /\ out' = [out EXCEPT ![p] = FreshOut]
  /\ runs' = runs + 1
  /\ UNCHANGED <<disk, charts, clock, obs, succ_runs, failures, overlap>>

\* main() enters the loop body: reddit.update() runs self.load_data()
EnterUpdate(p) ==
  /\ proc[p].pc = "loop"
  /\ WhileCond(p)
  /\ proc' = [proc EXCEPT ![p].pc = "fetch",
                          ![p].mem = LoadData(proc[p].mem, disk)]
  /\ out' = [out EXCEPT ![p].calls = @ + 1]
  /\ UNCHANGED <<disk, charts, clock, obs, runs, succ_runs, failures, overlap>>

\* update() from _get_reddit_data() on, both fetches answered: the sample is
\* merged and saved, and main() sets success
UpdateOk(p) ==
  /\ proc[p].pc = "fetch"
  /\ \E rr \in FetchablePairs :
       LET sample == GetRedditData(rr[1], rr[2], clock + 1)
           merged == MergeSample(proc[p].mem, sample)
       IN /\ proc' = [proc EXCEPT ![p].pc = "loop", ![p].success = TRUE,
                                  ![p].mem = merged, ![p].sample = sample]
          /\ disk' = SaveData(merged, disk)
          /\ obs' = Observe(rr[1], rr[2])
  /\ clock' = clock + 1
  /\ out' = [out EXCEPT ![p].written = StoreFiles]
  /\ succ_runs' = succ_runs + 1
  /\ UNCHANGED <<charts, runs, failures, overlap>>

\* one of the two fetches raises urllib.error.HTTPError: update() is left
\* before it changed anything, and main() counts the attempt
UpdateHTTPError(p) ==
  /\ proc[p].pc = "fetch"
  /\ proc' = [proc EXCEPT ![p].pc = "loop", ![p].attempts = @ + 1]
  /\ UNCHANGED <<disk, charts, clock, out, obs, runs, succ_runs, failures, overlap>>

\* a fetch raises another error (URLError, a timeout): nothing catches it
UpdateOtherError(p) ==
  /\ proc[p].pc = "fetch"
  /\ proc' = [proc EXCEPT ![p].pc = "exited"]
  /\ out' = [out EXCEPT ![p].exit_status = 1]
  /\ UNCHANGED <<disk, charts, clock, obs, runs, succ_runs, failures, overlap>>

\* main() after the loop, all attempts failed: print(...); sys.exit()
GiveUp(p) ==
  /\ proc[p].pc = "loop"
  /\ ~WhileCond(p)
  /\ GaveUpCond(p)
  /\ proc' = [proc EXCEPT ![p].pc = "exited"]
  /\ out' = [out EXCEPT ![p].stderr = Append(@, ConnectionMessage),
                        ![p].exit_status = 0]
  /\ UNCHANGED <<disk, charts, clock, obs, runs, succ_runs, failures, overlap>>

\* main(): for filename, data_dict in file_dict.items(): generate_graph(...);
\* the files saved before the first data dictionary that raises
GraphsSaved(file_dict) ==
  {ChartOrder[i] : i \in {j \in DOMAIN ChartOrder :
     \A k \in 1..j : ~GraphRaises(file_dict[ChartOrder[k]])}}

\* main() after the loop, otherwise: the totals, then the four charts; an
\* empty data dictionary raises ValueError and ends the process
Report(p) ==
  /\ proc[p].pc = "loop"
  /\ ~WhileCond(p)
  /\ ~GaveUpCond(p)
  /\ LET done == GraphsSaved(FileDict(proc[p].mem))
     IN /\ charts' = charts \cup done
        /\ out' = [out EXCEPT ![p].rendered = done,
                              ![p].exit_status = IF done = ChartFiles THEN 0 ELSE 1]
  /\ proc' = [proc EXCEPT ![p].pc = "exited"]
  /\ UNCHANGED <<disk, clock, obs, runs, succ_runs, failures, overlap>>

Next ==
  \/ StartRun(Solo)
  \/ EnterUpdate(Solo)
  \/ UpdateOk(Solo)
  \/ UpdateHTTPError(Solo)
  \/ UpdateOtherError(Solo)
  \/ GiveUp(Solo)
  \/ Report(Solo)

Spec == Init /\ [][Next]_vars

\* ------------------------------------- SpecConc: two invocations at once
\* what an earlier run left in DATA_PATH: one sample, saved
SeedFront == [has_children |-> TRUE,
              children |-> <<[author |-> "u1", domain |-> "d1"]>>]
SeedAll == [has_children |-> TRUE,
            children |-> <<[author |-> "u2", domain |-> "d2"]>>]
SeedDisk ==
  SaveData(MergeSample(LoadData(FreshProc.mem, EmptyDisk),
                       GetRedditData(SeedFront, SeedAll, 1)),
           EmptyDisk)

\* the data directory is empty, or holds the sample of one earlier run
InitConc ==
  /\ \/ /\ disk = EmptyDisk
        /\ clock = 0
        /\ succ_runs = 0
        /\ obs = [l \in Listings |-> [post \in Posts |-> 0]]
     \/ /\ disk = SeedDisk
        /\ clock = 1
        /\ succ_runs = 1
        /\ obs = [l \in Listings |-> [post \in Posts |->
                    CountIn(IF l = "front" THEN SeedFront.children
                            ELSE SeedAll.children, post)]]
  /\ charts = {}
  /\ proc = [p \in Procs |-> NoProc]
  /\ out = [p \in Procs |-> FreshOut]
  /\ runs = 0
  /\ failures = 0
  /\ overlap = FALSE

\* python main.py, whatever the other process is doing
CStart(p) ==
  /\ proc[p].pc = "idle"
  /\ proc' = [proc EXCEPT ![p] = FreshProc]
  /\ out' = [out EXCEPT ![p] = FreshOut]
  /\ runs' = runs + 1
  /\ overlap' = (overlap \/ \E q \in Procs \ {p} : Alive(q))
  /\ UNCHANGED <<disk, charts, clock, obs, succ_runs, failures>>

\* update() calls load_data(): if not self.is_data_loaded() or override
CEnterUpdate(p) ==
  /\ proc[p].pc = "loop"
  /\ WhileCond(p)
  /\ proc' = [proc EXCEPT ![p].pc = IF IsDataLoaded(proc[p].mem)
                                   THEN "fetch" ELSE "ld_data"]
  /\ out' = [out EXCEPT ![p].calls = @ + 1]
  /\ UNCHANGED <<disk, charts, clock, obs, runs, succ_runs, failures, overlap>>

\* load_data(): self._data = self._load_data_file(self._data_file)
CLoadDataFile(p) ==
  /\ proc[p].pc = "ld_data"
  /\ proc' = [proc EXCEPT ![p].pc = "ld_all",
                          ![p].mem.data = LoadDataFile(disk[DATA_FILE], FALSE)]
  /\ UNCHANGED <<disk, charts, clock, out, obs, runs, succ_runs, failures, overlap>>

\* load_data(): self._all_data = self._load_data_file(self._all_data_file)
CLoadAllFile(p) ==
  /\ proc[p].pc = "ld_all"
  /\ proc' = [proc EXCEPT ![p].pc = "ld_date",
                          ![p].mem.all_data = LoadDataFile(disk[ALL_DATA_FILE], FALSE)]
  /\ UNCHANGED <<disk, charts, clock, out, obs, runs, succ_runs, failures, overlap>>

\* load_data(): self._date_data = self._load_data_file(self._date_data_file)
CLoadDateFile(p) ==
  /\ proc[p].pc = "ld_date"
  /\ proc' = [proc EXCEPT ![p].pc = "fetch",
                          ![p].mem.date_data = LoadDataFile(disk[DATE_FILE], FALSE)]
  /\ UNCHANGED <<disk, charts, clock, out, obs, runs, succ_runs, failures, overlap>>

\* the posts of a sample, over both listings
SampleSize(sample) ==
  SumOver([a \in DOMAIN sample.data |-> Len(sample.data[a])],
          DOMAIN sample.data)
    + SumOver([a \in DOMAIN sample.all_data |-> Len(sample.all_data[a])],
              DOMAIN sample.all_data)

\* the posts the processes have fetched so far
ConcFetched ==
  SumOver([p \in Procs |-> SampleSize(proc[p].sample)], Procs)

\* update(): both fetches answered, and the sample merged into the memory
CFetchOk(p) ==
  /\ proc[p].pc = "fetch"
  /\ \E rr \in ResponsePairs(MaxConcPosts - ConcFetched) :
       LET sample == GetRedditData(rr[1], rr[2], clock + 1)
       IN /\ proc' = [proc EXCEPT ![p].pc = "sv_data",
                                  ![p].mem = MergeSample(proc[p].mem, sample),
                                  ![p].sample = sample]
          /\ obs' = Observe(rr[1], rr[2])
  /\ clock' = clock + 1
  /\ UNCHANGED <<disk, charts, out, runs, succ_runs, failures, overlap>>

\* a fetch raises urllib.error.HTTPError, as often as the bound lets it
CFetchHTTPError(p) ==
  /\ failures < MaxConcFailures
  /\ failures' = failures + 1
  /\ proc[p].pc = "fetch"
  /\ proc' = [proc EXCEPT ![p].pc = "loop", ![p].attempts = @ + 1]
  /\ UNCHANGED <<disk, charts, clock, out, obs, runs, succ_runs, overlap>>

\* save_data(): self._save_data_file(self._data_file, self._data)
CSaveDataFile(p) ==
  /\ proc[p].pc = "sv_data"
  /\ disk' = [disk EXCEPT ![DATA_FILE] = SaveDataFile(proc[p].mem.data)]
  /\ proc' = [proc EXCEPT ![p].pc = "sv_all"]
  /\ out' = [out EXCEPT ![p].written = @ \cup {DATA_FILE}]
  /\ UNCHANGED <<charts, clock, obs, runs, succ_runs, failures, overlap>>

\* save_data(): self._save_data_file(self._all_data_file, self._all_data)
CSaveAllFile(p) ==
  /\ proc[p].pc = "sv_all"
  /\ disk' = [disk EXCEPT ![ALL_DATA_FILE] = SaveDataFile(proc[p].mem.all_data)]
  /\ proc' = [proc EXCEPT ![p].pc = "sv_date"]
  /\ out' = [out EXCEPT ![p].written = @ \cup {ALL_DATA_FILE}]
  /\ UNCHANGED <<charts, clock, obs, runs, succ_runs, failures, overlap>>

\* save_data(): the dates file; update() returns and main() sets success
CSaveDateFile(p) ==
  /\ proc[p].pc = "sv_date"
  /\ disk' = [disk EXCEPT ![DATE_FILE] = SaveDataFile(proc[p].mem.date_data)]
  /\ proc' = [proc EXCEPT ![p].pc = "loop", ![p].success = TRUE]
  /\ out' = [out EXCEPT ![p].written = @ \cup {DATE_FILE}]
  /\ succ_runs' = succ_runs + 1
  /\ UNCHANGED <<charts, clock, obs, runs, failures, overlap>>

\* GiveUp is left out: fewer than MaxAttempts HTTP errors are raised here
NextConc ==
  \E p \in Procs :
    \/ CStart(p)
    \/ CEnterUpdate(p)
    \/ CLoadDataFile(p)
    \/ CLoadAllFile(p)
    \/ CLoadDateFile(p)
    \/ CFetchOk(p)
    \/ CFetchHTTPError(p)
    \/ UpdateOtherError(p)
    \/ CSaveDataFile(p)
    \/ CSaveAllFile(p)
    \/ CSaveDateFile(p)
    \/ Report(p)

SpecConc == InitConc /\ [][NextConc]_vars

\* ----------------------------------------------------------------- claims
FileOf(l) == IF l = "front" THEN DATA_FILE ELSE ALL_DATA_FILE

\* what a file of the data directory holds: a History (author -> entries) or
\* the list of time stamps; nothing when the file does not exist
DiskValue(f) == IF disk[f].exists THEN disk[f].text.val ELSE <<>>
DiskHistory(l) == DiskValue(FileOf(l))
DiskDates == DiskValue(DATE_FILE)

\* the posts by author a, and the posts on domain d, that listing l delivered
PostsBy(l, a) ==
  SumOver(obs[l], {post \in Posts : post.author = a})
PostsOn(l, d) ==
  SumOver(obs[l], {post \in Posts : post.domain = d})

\* how often a post is recorded in a History, inside its entries
StoredCount(history, post) ==
  IF post.author \notin DOMAIN history THEN 0
  ELSE LET entries == history[post.author]
       IN Cardinality(UNION {{<<i, j>> : j \in {k \in 1..Len(entries[i]) :
                                           entries[i][k] = post.domain}} :
                             i \in 1..Len(entries)})

\* a History on disk records every post its listing delivered
HistoryComplete(l) ==
  \A post \in Posts : StoredCount(DiskHistory(l), post) = obs[l][post]

Exited(p) == proc[p].pc = "exited"
GaveUp(p) == Exited(p) /\ out[p].stderr = <<ConnectionMessage>>

\* every entry of history is still there, in place, in later
Preserved(history, later) ==
  \A a \in DOMAIN history :
    /\ a \in DOMAIN later
    /\ Len(history[a]) <= Len(later[a])
    /\ SubSeq(later[a], 1, Len(history[a])) = history[a]

\* C1: after any sequence of update cycles from an empty store, for each
\* History and every author, the length of the author's list is the number
\* of the author's posts the listing delivered, and user_totals reports it.
C1_ListLengthIsPostCount ==
  \A l \in Listings : \A a \in Authors :
    LET history == DiskHistory(l)
    IN IF a \in DOMAIN history
       THEN /\ Len(history[a]) = PostsBy(l, a)
            /\ UserTotals(history)[a] = PostsBy(l, a)
       ELSE PostsBy(l, a) = 0

\* C2: for each History, the keys of domain_totals are the domains of the
\* posts the listing delivered, and the value for domain d is the number of
\* delivered posts on d.
C2_DomainTotalsCountPosts ==
  \A l \in Listings :
    LET totals == DomainTotals(DiskHistory(l))
    IN /\ DOMAIN totals = {d \in Domains : PostsOn(l, d) > 0}
       /\ \A d \in DOMAIN totals : totals[d] = PostsOn(l, d)

\* C3: a run never calls update() more than 10 times; when every fetch has
\* failed with an HTTP error it has called it exactly 10 times, can only
\* give up, and on giving up has printed the connection message, has exited
\* and has saved no chart.
C3_TenAttemptsThenGiveUp ==
  \A p \in Procs :
    /\ out[p].calls <= MaxAttempts
    /\ (proc[p].pc = "loop" /\ GaveUpCond(p)) =>
         /\ out[p].calls = MaxAttempts
         /\ ~ENABLED EnterUpdate(p)
         /\ ENABLED GiveUp(p)
    /\ (Exited(p) /\ GaveUpCond(p)) => GaveUp(p)
    /\ ConnectionMessage \in {out[p].stderr[i] : i \in DOMAIN out[p].stderr} =>
         /\ Exited(p)
         /\ ~proc[p].success
         /\ proc[p].attempts = MaxAttempts
         /\ out[p].calls = MaxAttempts
         /\ out[p].rendered = {}

\* a run has given up after 10 failed attempts
C3_Witness ==
  \E p \in Procs : GaveUp(p) /\ out[p].calls = MaxAttempts

\* C4: a run whose 10 attempts all failed exits with a non-zero status.  This
\* is the first half of the claim; the second half, exit status 0 after a
\* successful attempt, is the exit_status conjunct of
\* C9_SuccessfulRunRendersAll.
C4_FailureExitsNonZero ==
  \A p \in Procs : GaveUp(p) => out[p].exit_status # 0

\* C5: the dates file holds one time stamp per run in which an update
\* succeeded, in order, and none for a failed attempt or a failed run.
C5_OneStampPerSuccessfulRun ==
  /\ Len(DiskDates) = succ_runs
  /\ DiskDates = [i \in 1..succ_runs |-> i]
  /\ disk[DATE_FILE].exists => disk[DATE_FILE].text.json = "array"

\* the third run succeeds after failed attempts, one earlier run having
\* failed altogether: two stamps on disk
C5_Witness ==
  /\ runs = 3
  /\ succ_runs = 2
  /\ proc[Solo].success
  /\ proc[Solo].attempts > 0
  /\ Len(DiskDates) = 2

\* one step keeps every History, on disk and in a process's memory
HistoriesKept ==
  /\ \A l \in Listings : Preserved(DiskHistory(l), DiskHistory(l)')
  /\ \A p \in Procs :
       /\ (proc[p].mem.data.kind = "dict" /\ proc'[p].mem.data.kind = "dict")
            => Preserved(proc[p].mem.data.val, proc'[p].mem.data.val)
       /\ (proc[p].mem.all_data.kind = "dict"
             /\ proc'[p].mem.all_data.kind = "dict")
            => Preserved(proc[p].mem.all_data.val, proc'[p].mem.all_data.val)

\* C6: over sequential runs and attempts, every author of a History stays in
\* it and the author's list before a step is a prefix of the list after it,
\* on disk and in memory.
C6_HistoriesOnlyGrow == [][HistoriesKept]_vars

\* an author's list on disk holds entries of two samples, and a later
\* attempt has failed since
C6_Witness ==
  /\ \E a \in Authors :
       /\ a \in DOMAIN DiskHistory("front")
       /\ Len(DiskHistory("front")[a]) = 2
  /\ proc[Solo].attempts > 0
  /\ runs = 3

\* C7 as stated: every run has, at its end, written the two Histories and
\* the dates file, whether or not it fetched new data.  A run that ends by
\* an uncaught exception has no end of its own and is left aside: the runs
\* meant are those main() ends itself (exit status 0).
C7_EveryRunSaves ==
  \A p \in Procs :
    (Exited(p) /\ out[p].exit_status = 0) => out[p].written = StoreFiles

\* C7 as amended: a run writes the three files exactly when one of its
\* update attempts succeeds, all three together, before any chart, and they
\* then hold the process's memory; a run without a successful attempt
\* writes none of them.
C7_SavesIffUpdateSucceeded ==
  \A p \in Procs :
    /\ out[p].written \in {{}, StoreFiles}
    /\ proc[p].success <=> out[p].written = StoreFiles
    /\ out[p].rendered # {} => out[p].written = StoreFiles
    /\ proc[p].success =>
         /\ disk[DATA_FILE] = SaveDataFile(proc[p].mem.data)
         /\ disk[ALL_DATA_FILE] = SaveDataFile(proc[p].mem.all_data)
         /\ disk[DATE_FILE] = SaveDataFile(proc[p].mem.date_data)

\* a second run fetched two listings without posts and has saved all the same
C7_Witness ==
  \E p \in Procs :
    /\ Exited(p)
    /\ proc[p].success
    /\ DOMAIN proc[p].sample.data = {}
    /\ DOMAIN proc[p].sample.all_data = {}
    /\ out[p].written = StoreFiles
    /\ succ_runs = 2

\* C8: after load_data() against an empty data directory, both Histories in
\* memory are empty mappings and the time stamps are an empty sequence.
C8_MissingFilesLoadEmpty ==
  \A p \in Procs :
    (proc[p].pc = "fetch" /\ \A f \in StoreFiles : ~disk[f].exists) =>
      /\ proc[p].mem.data = PyDict(EmptyDict)
      /\ proc[p].mem.all_data = PyDict(EmptyDict)
      /\ proc[p].mem.date_data = PyList(<<>>)

\* C9: a run in which an update attempt succeeded ends with all four chart
\* files written and exit status 0, the three files saved before.
C9_SuccessfulRunRendersAll ==
  \A p \in Procs :
    (Exited(p) /\ proc[p].success) =>
      /\ out[p].rendered = ChartFiles
      /\ out[p].exit_status = 0
      /\ out[p].written = StoreFiles

BothDone == \A p \in Procs : Exited(p) /\ proc[p].success

\* C10: two invocations at once can lose a sample (C10_LostSample is
\* reached), and only at once: when both have completed an update cycle, the
\* dates file lacks at most one stamp, and when the two never ran at the same
\* time it lacks none and both Histories record every delivered post.
C10_LossNeedsOverlap ==
  BothDone =>
    /\ Len(DiskDates) \in {succ_runs - 1, succ_runs}
    /\ ~overlap =>
         /\ Len(DiskDates) = succ_runs
         /\ \A l \in Listings : HistoryComplete(l)

\* both invocations completed an update cycle, yet the dates file grew by one
\* stamp only and a History lacks a post one of them fetched
C10_LostSample ==
  /\ BothDone
  /\ overlap
  /\ Len(DiskDates) = succ_runs - 1
  /\ \E l \in Listings : ~HistoryComplete(l)

====
